---- MODULE Spec2Model ----
(***************************************************************************)
(* RiskOBot: the Streamlit audit application (src/app.py) and its evidence *)
(* assessment pipeline (src/utils/llm_chain.py).                           *)
(*                                                                         *)
(* One browser session is modelled.  A script run of app.py is sequential: *)
(* a button handler runs to its end before the next widget event is        *)
(* handled.  The handlers that call into llm_chain.py are cut at the call  *)
(* (pc = "build", "called") and, for the thread pool, at the steps of the   *)
(* worker threads and of the as_completed loop (pc = "pool").              *)
(***************************************************************************)
EXTENDS Integers, Sequences, FiniteSets, TLC

(* ---------------- bounds ---------------- *)
\* largest number of chunks a single uploaded document splits into, and
\* largest number of chunks of one batch
MaxChunks == 2
\* largest number of chunks of a knowledge base that is trained
MaxKBChunks == 1
\* largest number of questions sent to the chat
MaxChat == 2
\* largest number of pieces of a verdict text of agent.py
MaxVerdictLen == 3

(* ---------------- program constants ---------------- *)
\* def assess_evidence_with_kb(evidence_docs, kb_vectorstore, max_workers=4)
default_max_workers == 4
\* chat.py: kb_vectorstore.similarity_search(user_input, k=3)
chat_top_k == 3
\* chat.py: assessment[:3]
chat_prior_n == 3
(* ---------------- values ---------------- *)
\* st.session_state['kb_vectorstore']: key absent, None, or a FAISS store
AbsentKB == [kind |-> "Absent", texts |-> <<>>]
NoneKB == [kind |-> "None", texts |-> <<>>]
FAISS(texts) == [kind |-> "FAISS", texts |-> texts]
\* os.path.exists(VECTORSTORE_PATH) is false
NoDisk == [kind |-> "NoDisk", texts |-> <<>>]

\* a pandas table: the column names and one row of cell values per record
NoTable == [columns |-> <<>>, rows |-> <<>>]
\* st.session_state['workbook_path']: key absent, None, or the name of a
\* written file (identified with the table written to it)
AbsentPath == [kind |-> "Absent", table |-> NoTable]
NonePath == [kind |-> "None", table |-> NoTable]
PathOf(table) == [kind |-> "path", table |-> table]

\* st.session_state['assessment']: key absent or a list of records
AbsentList == [kind |-> "Absent", items |-> <<>>]
ListOf(items) == [kind |-> "list", items |-> items]

(* ---------------- documents and the text splitter ---------------- *)
\* A page_content is a sequence of characters; "x" stands for one chunk's
\* worth of text, " " for whitespace.
Text(n) == <<" ">> \o [i \in 1..n |-> "x"] \o <<" ">>
Contents == {<<>>, <<" ">>} \cup {Text(n) : n \in 1..MaxChunks}
\* raises: reading or splitting this document's page_content raises
Docs ==
  {[page_content |-> c, raises |-> FALSE] : c \in Contents}
    \cup {[page_content |-> <<>>, raises |-> TRUE]}
\* what the file uploader hands over: one or two files, one document each
Uploads == {<<d>> : d \in Docs} \cup {<<d1, d2>> : d1 \in Docs, d2 \in Docs}

\* save_and_load_files: the documents loaded from the uploaded files
save_and_load_files(files) == files

\* doc.page_content.strip(): leading and trailing whitespace removed
RECURSIVE strip(_)
strip(c) ==
  IF c = <<>> THEN c
  ELSE IF Head(c) = " " THEN strip(Tail(c))
  ELSE IF c[Len(c)] = " " THEN strip(SubSeq(c, 1, Len(c) - 1))
  ELSE c

\* text_splitter.split_text: the non-empty chunks of the text
split_text(c) == SelectSeq(c, LAMBDA ch : ch # " ")

\* lines 35-44 and 102-112: the loop over the documents; a document whose
\* processing raises is logged and skipped, an empty one is skipped
RECURSIVE SplitDocs(_, _)
SplitDocs(docs, i) ==
  IF i > Len(docs) THEN [texts |-> <<>>, origin |-> <<>>]
  ELSE LET rest == SplitDocs(docs, i + 1)
           d == docs[i]
       IN IF d.raises \/ strip(d.page_content) = <<>> THEN rest
          ELSE LET splits == split_text(d.page_content)
               IN [texts |-> splits \o rest.texts,
                   origin |-> [j \in 1..Len(splits) |-> i - 1] \o rest.origin]

(* ---------------- build_knowledge_base ---------------- *)
\* the `if not texts: raise` of lines 46-47 is missing
build_knowledge_baseNoEmptyCheck(docs, embedOk) ==
  LET texts == SplitDocs(docs, 1).texts
  IN IF ~embedOk THEN [exc |-> "EmbedError", kb |-> NoneKB]
     ELSE [exc |-> "None", kb |-> FAISS(texts)]

\* embedOk: FAISS.from_texts succeeds (the embedding service answers)
build_knowledge_base(docs, embedOk) ==
  LET texts == SplitDocs(docs, 1).texts
  IN IF texts = <<>> THEN [exc |-> "ValueError", kb |-> NoneKB]
     ELSE IF ~embedOk THEN [exc |-> "EmbedError", kb |-> NoneKB]
     ELSE [exc |-> "None", kb |-> FAISS(texts)]

(* ---------------- records ---------------- *)
\* A Python dict is a sequence of <<key, value>> pairs in insertion order.
HasKey(rec, key) == \E i \in 1..Len(rec) : rec[i][1] = key
Get(rec, key) == rec[CHOOSE i \in 1..Len(rec) : rec[i][1] = key][2]
Keys(rec) == [i \in 1..Len(rec) |-> rec[i][1]]

\* the language model's answers (a string is a sequence of tokens)
Responses == {<<"Assessment:", "Compliant">>}
\* messages of the exceptions the similarity search or the model call raise
ErrMsgs == {"ConnectionError"}

\* the except branch drops the exception's message
ErrorTextNoMessage(msg) == <<"Error:">>

\* f"Error: {e}"
ErrorText(msg) == <<"Error:", msg>>

\* _assess_single_evidence: the dict returned for an answer, or for the
\* exception caught at line 90
AnswerRecord(answer) == << <<"assessment", answer>> >>
ErrorRecord(msg) == << <<"assessment", ErrorText(msg)>> >>

(* ---------------- generate_workbook ---------------- *)
\* pd.DataFrame(list of dicts): the columns are the keys in order of first
\* appearance, a row holds the record's value per column (NaN if missing)
RECURSIVE ColumnsOf(_, _)
ColumnsOf(assessment, cols) ==
  IF assessment = <<>> THEN cols
  ELSE LET new == SelectSeq(Keys(Head(assessment)),
                            LAMBDA key : \A j \in 1..Len(cols) : cols[j] # key)
       IN ColumnsOf(Tail(assessment), cols \o new)

\* a table with one column per key occurrence instead of one per key
DataFrameColumnPerOccurrence(assessment) ==
  LET cols == ColumnsOf(assessment, <<>>)
      RECURSIVE AllKeys(_)
      AllKeys(a) == IF a = <<>> THEN <<>> ELSE Keys(Head(a)) \o AllKeys(Tail(a))
      all == AllKeys(assessment)
  IN [columns |-> all,
      rows |-> [r \in 1..Len(assessment) |->
                 [c \in 1..Len(all) |-> Get(assessment[r], all[c])]]]

DataFrame(assessment) ==
  LET cols == ColumnsOf(assessment, <<>>)
  IN [columns |-> cols,
      rows |-> [r \in 1..Len(assessment) |->
                 [c \in 1..Len(cols) |->
                   IF HasKey(assessment[r], cols[c])
                   THEN Get(assessment[r], cols[c]) ELSE <<"NaN">>]]]

\* the `not assessment` test of line 135 is missing
generate_workbookNoEmptyCheck(assessment, writeOk) ==
  IF ~writeOk THEN NonePath ELSE PathOf(DataFrame(assessment))

\* writeOk: df.to_excel and the temporary file succeed; any exception is
\* caught at line 146 and None is returned
generate_workbook(assessment, writeOk) ==
  IF assessment = <<>> THEN NonePath
  ELSE IF ~writeOk THEN NonePath
  ELSE PathOf(DataFrame(assessment))

(* ---------------- chat_with_bot (utils/chat.py) ---------------- *)
\* the questions typed into the chat input
Questions == {<<"q">>}

\* sep.join(parts) for strings that are sequences of tokens
RECURSIVE Join(_, _)
Join(parts, sep) ==
  IF parts = <<>> THEN <<>>
  ELSE IF Len(parts) = 1 THEN parts[1]
  ELSE parts[1] \o <<sep>> \o Join(Tail(parts), sep)

\* kb_vectorstore.similarity_search(query, k): at most k texts of the store,
\* best match first (the store's order stands for the ranking)
similarity_search(kb, query, k) ==
  SubSeq(kb.texts, 1, IF Len(kb.texts) < k THEN Len(kb.texts) ELSE k)

\* the slice takes the whole list of records
FirstRecordsAll(assessment) == assessment

\* assessment[:3]
FirstRecords(assessment) ==
  SubSeq(assessment, 1,
         IF Len(assessment) < chat_prior_n THEN Len(assessment) ELSE chat_prior_n)

\* chat.py 12-20: the prompt composed from the question, the retrieved
\* contexts and the first records
ChatPrompt(user_input, kb_contexts, assessment) ==
  [question |-> user_input,
   kb_context |->
     Join([i \in 1..Len(kb_contexts) |-> <<kb_contexts[i]>>], "\n\n"),
   assessment_context |->
     Join([i \in 1..Len(FirstRecords(assessment)) |->
             Get(FirstRecords(assessment)[i], "assessment")], "\n\n")]

(* ---------------- agent.py: status of a verdict ---------------- *)
\* A verdict text is a sequence of pieces: the words the classification
\* looks for, in mixed and lower case, and "x" for any other text.
VerdictPieces == {"Non-", "Compliant", "compliant", "Partial", "x"}
VerdictTexts == UNION {[1..n -> VerdictPieces] : n \in 0..MaxVerdictLen}

\* verdict.lower()
LowerPiece(piece) ==
  CASE piece = "Non-" -> "non-"
    [] piece = "Compliant" -> "compliant"
    [] piece = "Partial" -> "partial"
    [] OTHER -> piece
lower(text) == [i \in 1..Len(text) |-> LowerPiece(text[i])]

\* sub in text
Contains(text, sub) ==
  \E i \in 1..(Len(text) - Len(sub) + 1) :
    SubSeq(text, i, i + Len(sub) - 1) = sub

\* the tests for "compliant" and "non-compliant" are in the other order
classify_statusCompliantFirst(verdict) ==
  LET v_lower == lower(verdict)
  IN IF Contains(v_lower, <<"compliant">>) THEN "Compliant"
     ELSE IF Contains(v_lower, <<"non-", "compliant">>) THEN "Non-Compliant"
     ELSE IF Contains(v_lower, <<"partial">>) THEN "Partial"
     ELSE "Unknown"

\* agent.py 158-165
classify_status(verdict) ==
  LET v_lower == lower(verdict)
  IN IF Contains(v_lower, <<"non-", "compliant">>) THEN "Non-Compliant"
     ELSE IF Contains(v_lower, <<"compliant">>) THEN "Compliant"
     ELSE IF Contains(v_lower, <<"partial">>) THEN "Partial"
     ELSE "Unknown"

\* chat_with_bot: the three variable parts of the prompt f-string
NoPrompt == [question |-> <<>>, kb_context |-> <<>>, assessment_context |-> <<>>]

(* ---------------- state ---------------- *)
VARIABLES
  ss,            \* st.session_state
  disk,          \* the store saved under VECTORSTORE_PATH, or NoDisk
  handler_exc,   \* the exception that ended the last button handler
  pc,            \* "idle", "build", "called" or "pool"
  docs_arg,      \* the documents passed to the running call
  kb_arg,        \* the kb_vectorstore passed to assess_evidence_with_kb
  max_workers,   \* the max_workers argument of assess_evidence_with_kb
  evid_texts,    \* assess_evidence_with_kb: evid_texts
  chunk_origin,  \* assess_evidence_with_kb: chunk_origin
  futures,       \* the futures of the pool, one per chunk
  yielded,       \* the futures as_completed has yielded so far, in order
  results,       \* assess_evidence_with_kb: results
  chat_history,  \* st.session_state["chat_history"]
  chat_prompt,   \* chat_with_bot: the prompt of the model call in progress
  agent_results  \* agent.py run_audit: results

vars == <<ss, disk, handler_exc, pc, docs_arg, kb_arg, max_workers,
          evid_texts, chunk_origin, futures, yielded, results,
          chat_history, chat_prompt, agent_results>>

\* the state of the chat (utils/chat.py) and of the other page (agent.py)
chat_vars == <<chat_history, chat_prompt>>

call_vars == <<docs_arg, kb_arg, evid_texts, chunk_origin, futures, yielded, results>>

EmptySession ==
  [kb_vectorstore |-> AbsentKB, kb_ready |-> FALSE,
   kb_loaded_from_saved |-> FALSE, bot_trained_success |-> FALSE,
   bot_saved |-> FALSE, assessment_done |-> FALSE,
   assessment |-> AbsentList, workbook_path |-> AbsentPath]

\* app.py 36-45, 57-64, 67-78: the top of every script run
RunTop(s, d) ==
  LET s1 == IF d # NoDisk /\ ~s.kb_ready
            THEN [s EXCEPT !.kb_vectorstore = d, !.kb_ready = TRUE,
                           !.kb_loaded_from_saved = TRUE]
            ELSE s
  IN IF d # NoDisk /\ ~s1.kb_ready
     THEN [s1 EXCEPT !.kb_vectorstore = d, !.kb_ready = TRUE,
                     !.kb_loaded_from_saved = TRUE,
                     !.bot_trained_success = TRUE]
     ELSE s1

\* app.py 191-197: Step 3 of the page opens the workbook when assessment_done
RenderExc(s) ==
  IF s.assessment_done /\ s.workbook_path.kind # "path"
  THEN "TypeError" ELSE "None"

\* widget events are handled while a handler is still running
ScriptAnytime == TRUE

\* no script run is in progress: widget events are handled one at a time
ScriptIdle == pc = "idle"

Init ==
  /\ disk \in {NoDisk, FAISS(<<"x">>)}
  /\ ss = RunTop(EmptySession, disk)
  /\ handler_exc = "None"
  /\ pc = "idle"
  /\ docs_arg = <<>>
  /\ kb_arg = NoneKB
  /\ max_workers = default_max_workers
  /\ evid_texts = <<>>
  /\ chunk_origin = <<>>
  /\ futures = <<>>
  /\ yielded = <<>>
  /\ results = <<>>
  /\ chat_history = <<>>
  /\ chat_prompt = NoPrompt
  /\ agent_results = <<>>

(* ---------------- Step 1: train, save, delete (app.py 109-155) ---------------- *)
\* train_btn: the handler up to the call build_knowledge_base(kb_docs)
TrainClick(files) ==
  /\ ScriptIdle
  /\ Len(files) > 0
  /\ Len(SplitDocs(files, 1).texts) <= MaxKBChunks
  /\ ss' = RunTop(ss, disk)
  /\ pc' = "build"
  /\ docs_arg' = save_and_load_files(files)
  /\ handler_exc' = "None"
  /\ UNCHANGED <<disk, kb_arg, max_workers, evid_texts, chunk_origin,
                 futures, yielded, results>>
  /\ UNCHANGED <<chat_vars, agent_results>>

\* the rest of the train_btn handler: an exception of build_knowledge_base
\* leaves the handler at line 112, otherwise lines 113-117 and the rerun
TrainBuild(embedOk) ==
  /\ pc = "build"
  /\ LET b == build_knowledge_base(docs_arg, embedOk)
     IN IF b.exc = "None"
        THEN /\ ss' = RunTop([ss EXCEPT !.kb_vectorstore = b.kb,
                                        !.kb_ready = TRUE,
                                        !.bot_trained_success = TRUE,
                                        !.bot_saved = FALSE,
                                        !.kb_loaded_from_saved = FALSE], disk)
             /\ handler_exc' = "None"
        ELSE /\ ss' = ss
             /\ handler_exc' = b.exc
  /\ pc' = "idle"
  /\ docs_arg' = <<>>
  /\ UNCHANGED <<disk, kb_arg, max_workers, evid_texts, chunk_origin,
                 futures, yielded, results>>
  /\ UNCHANGED <<chat_vars, agent_results>>

\* save_btn and not save_disabled
Save ==
  /\ ScriptIdle
  /\ LET s == RunTop(ss, disk)
     IN /\ s.bot_trained_success
        /\ IF s.kb_vectorstore.kind = "FAISS"
           THEN /\ disk' = s.kb_vectorstore
                /\ ss' = RunTop([s EXCEPT !.bot_trained_success = FALSE,
                                          !.bot_saved = TRUE], disk')
           ELSE /\ disk' = disk
                /\ ss' = s
  /\ handler_exc' = "None"
  /\ UNCHANGED <<pc, max_workers>>
  /\ UNCHANGED call_vars
  /\ UNCHANGED <<chat_vars, agent_results>>

\* the delete handler leaves kb_ready set
DeleteKeepsReady ==
  /\ ScriptIdle
  /\ disk # NoDisk
  /\ disk' = NoDisk
  /\ ss' = RunTop([RunTop(ss, disk) EXCEPT !.kb_vectorstore = NoneKB,
                                          !.bot_trained_success = FALSE,
                                          !.bot_saved = FALSE,
                                          !.kb_loaded_from_saved = FALSE], disk')
  /\ handler_exc' = "None"
  /\ UNCHANGED <<pc, max_workers>>
  /\ UNCHANGED call_vars
  /\ UNCHANGED <<chat_vars, agent_results>>

\* delete_btn and not delete_disabled
Delete ==
  /\ ScriptIdle
  /\ disk # NoDisk
  /\ disk' = NoDisk
  /\ ss' = RunTop([RunTop(ss, disk) EXCEPT !.kb_ready = FALSE,
                                          !.kb_vectorstore = NoneKB,
                                          !.bot_trained_success = FALSE,
                                          !.bot_saved = FALSE,
                                          !.kb_loaded_from_saved = FALSE], disk')
  /\ handler_exc' = "None"
  /\ UNCHANGED <<pc, max_workers>>
  /\ UNCHANGED call_vars
  /\ UNCHANGED <<chat_vars, agent_results>>

(* ---------------- Step 2: process evidence (app.py 173-188) ---------------- *)
\* process_btn and evidence_ready: the handler up to the call
\* assess_evidence_with_kb(evidence_docs, st.session_state['kb_vectorstore'])
ProcessClick(files) ==
  /\ ScriptIdle
  /\ RunTop(ss, disk).kb_ready
  /\ Len(files) > 0
  /\ Len(SplitDocs(files, 1).texts) <= MaxChunks
  /\ ss' = RunTop(ss, disk)
  /\ pc' = "called"
  /\ docs_arg' = save_and_load_files(files)
  /\ kb_arg' = RunTop(ss, disk).kb_vectorstore
  /\ handler_exc' = "None"
  /\ UNCHANGED <<disk, max_workers, evid_texts, chunk_origin, futures,
                 yielded, results>>
  /\ UNCHANGED <<chat_vars, agent_results>>

\* app.py 183-186 after assess_evidence_with_kb returned `assessment`
FinishProcess(assessment, writeOk) ==
  /\ ss' = [ss EXCEPT !.assessment = ListOf(assessment),
                      !.workbook_path = generate_workbook(assessment, writeOk),
                      !.assessment_done = TRUE]
  /\ handler_exc' = "None"
  /\ pc' = "idle"
  /\ docs_arg' = <<>>
  /\ kb_arg' = NoneKB
  /\ evid_texts' = <<>>
  /\ chunk_origin' = <<>>
  /\ futures' = <<>>
  /\ yielded' = <<>>
  /\ results' = <<>>
  /\ UNCHANGED <<disk, max_workers>>

\* a future of the pool: queued, running (before the similarity search),
\* llm (in the model call), hung (a model call that never returns), done
NewFuture == [st |-> "queued", exc |-> "None", result |-> <<>>]

\* assess_evidence_with_kb 100-124: split the documents; with no chunk
\* return [] to the handler, otherwise submit one work item per chunk
AssessSplit(writeOk) ==
  /\ pc = "called"
  /\ LET sp == SplitDocs(docs_arg, 1)
     IN IF sp.texts = <<>>
        THEN FinishProcess(<<>>, writeOk)
        ELSE /\ evid_texts' = sp.texts
             /\ chunk_origin' = sp.origin
             /\ futures' = [i \in 1..Len(sp.texts) |-> NewFuture]
             /\ pc' = "pool"
             /\ docs_arg' = <<>>
             /\ UNCHANGED <<ss, disk, handler_exc, kb_arg, max_workers,
                            yielded, results>>
  /\ UNCHANGED <<chat_vars, agent_results>>

(* ---------------- the thread pool ---------------- *)
\* a pool that adds a thread per submitted work item
PoolThreadsUnbounded(n, mw) == n

\* ThreadPoolExecutor(max_workers): a thread is added on submit only while
\* fewer than max_workers exist
PoolThreads(n, mw) == IF n < mw THEN n ELSE mw

InFlight == {i \in DOMAIN futures : futures[i].st \in {"running", "llm", "hung"}}

\* a free worker thread takes the next work item of the queue
WorkerStart(i) ==
  /\ pc = "pool"
  /\ futures[i].st = "queued"
  /\ \A j \in 1..(i - 1) : futures[j].st # "queued"
  /\ Cardinality(InFlight) < PoolThreads(Len(futures), max_workers)
  /\ futures' = [futures EXCEPT ![i].st = "running"]
  /\ UNCHANGED <<ss, disk, handler_exc, pc, docs_arg, kb_arg, max_workers,
                 evid_texts, chunk_origin, yielded, results>>
  /\ UNCHANGED <<chat_vars, agent_results>>

\* _assess_single_evidence line 64: kb_vectorstore.similarity_search
Search(i, ok) ==
  /\ pc = "pool"
  /\ futures[i].st = "running"
  /\ IF kb_arg.kind # "FAISS"
     THEN futures' = [futures EXCEPT ![i] =
            [st |-> "done", exc |-> "AttributeError",
             result |-> ErrorRecord("AttributeError")]]
     ELSE IF ok
     THEN futures' = [futures EXCEPT ![i].st = "llm"]
     ELSE \E msg \in ErrMsgs :
            futures' = [futures EXCEPT ![i] =
              [st |-> "done", exc |-> msg, result |-> ErrorRecord(msg)]]
  /\ UNCHANGED <<ss, disk, handler_exc, pc, docs_arg, kb_arg, max_workers,
                 evid_texts, chunk_origin, yielded, results>>
  /\ UNCHANGED <<chat_vars, agent_results>>

\* _assess_single_evidence line 86: llm(prompt) returns an answer
LlmAnswer(i, answer) ==
  /\ pc = "pool"
  /\ futures[i].st = "llm"
  /\ futures' = [futures EXCEPT ![i] =
       [st |-> "done", exc |-> "None", result |-> AnswerRecord(answer)]]
  /\ UNCHANGED <<ss, disk, handler_exc, pc, docs_arg, kb_arg, max_workers,
                 evid_texts, chunk_origin, yielded, results>>
  /\ UNCHANGED <<chat_vars, agent_results>>

\* _assess_single_evidence line 86: llm(prompt) raises, caught at line 90
LlmRaise(i, msg) ==
  /\ pc = "pool"
  /\ futures[i].st = "llm"
  /\ futures' = [futures EXCEPT ![i] =
       [st |-> "done", exc |-> msg, result |-> ErrorRecord(msg)]]
  /\ UNCHANGED <<ss, disk, handler_exc, pc, docs_arg, kb_arg, max_workers,
                 evid_texts, chunk_origin, yielded, results>>
  /\ UNCHANGED <<chat_vars, agent_results>>

\* _assess_single_evidence line 86: llm(prompt) never returns; the call is
\* made without a timeout
LlmHang(i) ==
  /\ pc = "pool"
  /\ futures[i].st = "llm"
  /\ futures' = [futures EXCEPT ![i].st = "hung"]
  /\ UNCHANGED <<ss, disk, handler_exc, pc, docs_arg, kb_arg, max_workers,
                 evid_texts, chunk_origin, yielded, results>>
  /\ UNCHANGED <<chat_vars, agent_results>>

\* the loop keeps only the answers: a record of a failed chunk is dropped
AppendResultSkipError(res, r) ==
  IF Get(r, "assessment")[1] = "Error:" THEN res ELSE Append(res, r)

\* line 126: results.append(future.result())
AppendResult(res, r) == Append(res, r)

\* lines 125-126: as_completed yields a finished future not yet yielded
Collect(i) ==
  /\ pc = "pool"
  /\ futures[i].st = "done"
  /\ \A k \in 1..Len(yielded) : yielded[k] # i
  /\ yielded' = Append(yielded, i)
  /\ results' = AppendResult(results, futures[i].result)
  /\ UNCHANGED <<ss, disk, handler_exc, pc, docs_arg, kb_arg, max_workers,
                 evid_texts, chunk_origin, futures>>
  /\ UNCHANGED <<chat_vars, agent_results>>

\* lines 127-129 and app.py 183-186: as_completed is exhausted, the pool is
\* shut down, results is returned to the handler
AssessReturn(writeOk) ==
  /\ pc = "pool"
  /\ Len(yielded) = Len(futures)
  /\ FinishProcess(results, writeOk)
  /\ UNCHANGED <<chat_vars, agent_results>>

(* ---------------- Step 3: chat (app.py 191-197, utils/chat.py) ---------------- *)
\* the Send button: chat_with_bot is reached when Step 3 is shown and the
\* workbook could be opened; lines 9-20 query the store and compose the
\* prompt, line 21 calls the model
ChatSend(user_input, ok) ==
  /\ ScriptIdle
  /\ Len(chat_history) < MaxChat
  /\ RunTop(ss, disk).assessment_done
  /\ RenderExc(RunTop(ss, disk)) = "None"
  /\ ss' = RunTop(ss, disk)
  /\ LET kb == RunTop(ss, disk).kb_vectorstore
     IN IF kb.kind # "FAISS"
        THEN /\ handler_exc' = "AttributeError"
             /\ UNCHANGED <<pc, chat_prompt>>
        ELSE IF ~ok
        THEN /\ handler_exc' \in ErrMsgs
             /\ UNCHANGED <<pc, chat_prompt>>
        ELSE /\ handler_exc' = "None"
             /\ pc' = "chat"
             /\ chat_prompt' =
                  ChatPrompt(user_input,
                             similarity_search(kb, user_input, chat_top_k),
                             RunTop(ss, disk).assessment.items)
  /\ UNCHANGED <<disk, max_workers, chat_history, agent_results>>
  /\ UNCHANGED call_vars

\* chat.py 21-22: the model answers and the pair is appended to the history
ChatReply(response) ==
  /\ pc = "chat"
  /\ chat_history' =
       Append(chat_history, [user |-> chat_prompt.question, bot |-> response])
  /\ chat_prompt' = NoPrompt
  /\ pc' = "idle"
  /\ handler_exc' = "None"
  /\ UNCHANGED <<ss, disk, max_workers, agent_results>>
  /\ UNCHANGED call_vars

\* chat.py 21: the model call raises; nothing catches it
ChatRaise(msg) ==
  /\ pc = "chat"
  /\ chat_prompt' = NoPrompt
  /\ pc' = "idle"
  /\ handler_exc' = msg
  /\ UNCHANGED <<ss, disk, max_workers, chat_history, agent_results>>
  /\ UNCHANGED call_vars

Next ==
  \/ \E files \in Uploads : TrainClick(files)
  \/ \E embedOk \in BOOLEAN : TrainBuild(embedOk)
  \/ Save
  \/ Delete
  \/ \E files \in Uploads : ProcessClick(files)
  \/ \E writeOk \in BOOLEAN : AssessSplit(writeOk)
  \/ \E i \in DOMAIN futures : WorkerStart(i)
  \/ \E i \in DOMAIN futures, ok \in BOOLEAN : Search(i, ok)
  \/ \E i \in DOMAIN futures, answer \in Responses : LlmAnswer(i, answer)
  \/ \E i \in DOMAIN futures, msg \in ErrMsgs : LlmRaise(i, msg)
  \/ \E i \in DOMAIN futures : LlmHang(i)
  \/ \E i \in DOMAIN futures : Collect(i)
  \/ \E writeOk \in BOOLEAN : AssessReturn(writeOk)

Spec == Init /\ [][Next]_vars

\* The same program with a smaller pool, so that work items queue up.
PoolInit ==
  /\ disk \in {NoDisk, FAISS(<<"x">>)}
  /\ ss = RunTop(EmptySession, disk)
  /\ handler_exc = "None"
  /\ pc = "idle"
  /\ docs_arg = <<>>
  /\ kb_arg = NoneKB
  /\ max_workers \in 1..(MaxChunks - 1)
  /\ evid_texts = <<>>
  /\ chunk_origin = <<>>
  /\ futures = <<>>
  /\ yielded = <<>>
  /\ results = <<>>
  /\ chat_history = <<>>
  /\ chat_prompt = NoPrompt
  /\ agent_results = <<>>

PoolSpec == PoolInit /\ [][Next]_vars

\* A call that is running takes its next step; a model call in progress may
\* return, raise, or never return (LlmHang), so only its returning is fair.
LlmReturns ==
  \E i \in DOMAIN futures :
    \/ \E answer \in Responses : LlmAnswer(i, answer)
    \/ \E msg \in ErrMsgs : LlmRaise(i, msg)

LiveSpec ==
  /\ Init
  /\ [][Next]_vars
  /\ WF_vars(\E embedOk \in BOOLEAN : TrainBuild(embedOk))
  /\ WF_vars(\E writeOk \in BOOLEAN : AssessSplit(writeOk))
  /\ WF_vars(\E i \in DOMAIN futures : WorkerStart(i))
  /\ WF_vars(\E i \in DOMAIN futures, ok \in BOOLEAN : Search(i, ok))
  /\ WF_vars(LlmReturns)
  /\ WF_vars(\E i \in DOMAIN futures : Collect(i))
  /\ WF_vars(\E writeOk \in BOOLEAN : AssessReturn(writeOk))

\* A session in which a knowledge base of more than chat_top_k chunks was
\* trained and more than chat_prior_n evidence chunks were processed.
LongKB == FAISS([i \in 1..(chat_top_k + 1) |-> "x"])
LongAssessments ==
  {[i \in 1..(chat_prior_n + 1) |->
      IF i = e THEN ErrorRecord("ConnectionError")
      ELSE AnswerRecord(<<"Assessment:", "Compliant">>)] :
     e \in {1, chat_prior_n + 1}}

ChatInit ==
  /\ disk = NoDisk
  /\ \E a \in LongAssessments :
       ss = [kb_vectorstore |-> LongKB, kb_ready |-> TRUE,
             kb_loaded_from_saved |-> FALSE, bot_trained_success |-> TRUE,
             bot_saved |-> FALSE, assessment_done |-> TRUE,
             assessment |-> ListOf(a),
             workbook_path |-> generate_workbook(a, TRUE)]
  /\ handler_exc = "None"
  /\ pc = "idle"
  /\ docs_arg = <<>>
  /\ kb_arg = NoneKB
  /\ max_workers = default_max_workers
  /\ evid_texts = <<>>
  /\ chunk_origin = <<>>
  /\ futures = <<>>
  /\ yielded = <<>>
  /\ results = <<>>
  /\ chat_history = <<>>
  /\ chat_prompt = NoPrompt
  /\ agent_results = <<>>

\* Step 3 together with the Step 1 buttons, which replace or remove the
\* knowledge base under a finished assessment
ChatNext ==
  \/ \E user_input \in Questions, ok \in BOOLEAN : ChatSend(user_input, ok)
  \/ \E response \in Responses : ChatReply(response)
  \/ \E msg \in ErrMsgs : ChatRaise(msg)
  \/ \E files \in Uploads : TrainClick(files)
  \/ \E embedOk \in BOOLEAN : TrainBuild(embedOk)
  \/ Save
  \/ Delete

ChatSpec == ChatInit /\ [][ChatNext]_vars

(* ---------------- agent.py: run_audit ---------------- *)
\* agent.py 148-172: the Run Audit button with no or one evidence file; the
\* row keeps the status and the verdict text (shorter than 300 characters).
\* With no policy extracted match_evidence_to_policy returns None and
\* compliance_verdict raises on policy['id'] before the model is asked.
RunAudit(hasPolicy, verdicts) ==
  /\ IF ~hasPolicy /\ verdicts # <<>>
     THEN /\ handler_exc' = "TypeError"
          /\ UNCHANGED agent_results
     ELSE /\ handler_exc' = "None"
          /\ agent_results' =
               [i \in 1..Len(verdicts) |->
                  [Status |-> classify_status(verdicts[i]), Verdict |-> verdicts[i]]]
  /\ UNCHANGED <<ss, disk, pc, max_workers, chat_vars>>
  /\ UNCHANGED call_vars

AgentInit ==
  /\ disk = NoDisk
  /\ ss = EmptySession
  /\ handler_exc = "None"
  /\ pc = "idle"
  /\ docs_arg = <<>>
  /\ kb_arg = NoneKB
  /\ max_workers = default_max_workers
  /\ evid_texts = <<>>
  /\ chunk_origin = <<>>
  /\ futures = <<>>
  /\ yielded = <<>>
  /\ results = <<>>
  /\ chat_history = <<>>
  /\ chat_prompt = NoPrompt
  /\ agent_results = <<>>

AgentNext ==
  \E hasPolicy \in BOOLEAN, verdicts \in {<<>>} \cup {<<v>> : v \in VerdictTexts} :
    RunAudit(hasPolicy, verdicts)

AgentSpec == AgentInit /\ [][AgentNext]_vars

(* ======================= claims ======================= *)

\* the futures that ended with a caught exception
Failed == {i \in DOMAIN futures : futures[i].st = "done" /\ futures[i].exc # "None"}
IsErrorItem(r) == Get(r, "assessment")[1] = "Error:"

\* C1: when assess_evidence_with_kb returns, results holds exactly one
\* record per submitted chunk: as many records as chunks, and record k is the
\* result of the k-th yielded future, every future being yielded exactly once,
\* whatever chunks failed and in whatever order the workers finished.
C1_OneRecordPerChunk ==
  [][(pc = "pool" /\ pc' = "idle") =>
       /\ ss'.assessment = ListOf(results)
       /\ Len(results) = Len(evid_texts)
       /\ Len(yielded) = Len(evid_texts)
       /\ \A i \in 1..Len(evid_texts) :
            Cardinality({k \in 1..Len(yielded) : yielded[k] = i}) = 1
       /\ \A k \in 1..Len(results) : results[k] = futures[yielded[k]].result
    ]_vars

C1_Witness ==
  /\ pc = "idle"
  /\ ss.assessment_done
  /\ Len(ss.assessment.items) >= 2
  /\ \E k \in 1..Len(ss.assessment.items) : IsErrorItem(ss.assessment.items[k])
  /\ \E k \in 1..Len(ss.assessment.items) : ~IsErrorItem(ss.assessment.items[k])

C3_BoundedInFlight == Cardinality(InFlight) <= max_workers

C3_Witness ==
  /\ pc = "pool"
  /\ Cardinality(InFlight) = max_workers
  /\ \E i \in DOMAIN futures : futures[i].st = "queued"

\* C4 (as stated): a unit whose model call never returns is timed out, so
\* the batch it belongs to eventually returns to the handler.
C4_HungUnitTimesOut ==
  (\E i \in DOMAIN futures : futures[i].st = "hung") ~> (pc = "idle")

\* C5: during the assessment phase the knowledge base is only read: from the
\* call of assess_evidence_with_kb to its return no step changes the session's
\* store or the saved one, the store the workers query is the session's, it
\* is a built index, and no build is running.
C5_KBReadOnly ==
  [][(pc = "called" \/ pc = "pool") =>
       /\ ss'.kb_vectorstore = ss.kb_vectorstore
       /\ disk' = disk
       /\ kb_arg = ss.kb_vectorstore
       /\ kb_arg.kind = "FAISS"
       /\ pc' # "build"
    ]_vars

C5_Witness ==
  /\ InFlight # {}
  /\ disk # NoDisk
  /\ ss.bot_trained_success

\* C6 (as stated): every returned record carries its origin, the index of
\* its source document and of its chunk.
C6_RecordsTagged ==
  \A k \in 1..Len(results) :
    /\ HasKey(results[k], "doc_index")
    /\ Get(results[k], "doc_index") = chunk_origin[yielded[k]]
    /\ HasKey(results[k], "chunk_index")
    /\ Get(results[k], "chunk_index") = yielded[k] - 1

\* the evidence documents are all empty or whitespace-only
OnlyBlank(docs) ==
  \A i \in DOMAIN docs :
    /\ ~docs[i].raises
    /\ \A j \in DOMAIN docs[i].page_content : docs[i].page_content[j] = " "

C8_DownloadHasWorkbook ==
  ss.assessment_done => ss.workbook_path.kind = "path"

\* no chunk survives: every document raises, is empty or is whitespace-only
NoChunkSurvives(docs) ==
  \A i \in DOMAIN docs :
    \/ docs[i].raises
    \/ \A j \in DOMAIN docs[i].page_content : docs[i].page_content[j] = " "

\* C9: build_knowledge_base over documents of which no chunk survives raises
\* (ValueError) out of the train handler: the session keeps the store and the
\* flags it had, nothing is saved, and the handler has ended with that error.
C9_EmptyBuildFails ==
  [][(pc = "build" /\ NoChunkSurvives(docs_arg)) =>
       /\ handler_exc' = "ValueError"
       /\ ss' = ss
       /\ disk' = disk
       /\ pc' = "idle"
    ]_vars

C9_Witness ==
  /\ pc = "idle"
  /\ handler_exc = "ValueError"
  /\ ~ss.kb_ready
  /\ ss.kb_vectorstore.kind # "FAISS"

FirstThreeJoined(parts) ==
  IF Len(parts) = 0 THEN <<>>
  ELSE IF Len(parts) = 1 THEN parts[1]
  ELSE IF Len(parts) = 2 THEN parts[1] \o <<"\n\n">> \o parts[2]
  ELSE parts[1] \o <<"\n\n">> \o parts[2] \o <<"\n\n">> \o parts[3]

\* C11: a chat call changes neither the knowledge base, the records nor the
\* disk; the prompt it composes is determined by the question, the first
\* three texts of the knowledge base and the first three records, whatever
\* the chat history holds; its only effect is one pair appended to the
\* history.
C11_PromptFromInputsOnly ==
  [][/\ (pc = "idle" /\ pc' = "chat") =>
          /\ chat_prompt'.question \in Questions
          /\ chat_prompt'.kb_context =
               FirstThreeJoined([i \in 1..Len(ss.kb_vectorstore.texts) |->
                                   <<ss.kb_vectorstore.texts[i]>>])
          /\ chat_prompt'.assessment_context =
               FirstThreeJoined([i \in 1..Len(ss.assessment.items) |->
                                   ss.assessment.items[i][1][2]])
          /\ UNCHANGED <<ss, disk, chat_history>>
     /\ (pc = "chat") =>
          /\ UNCHANGED <<ss, disk>>
          /\ \/ chat_history' = chat_history
             \/ /\ Len(chat_history') = Len(chat_history) + 1
                /\ SubSeq(chat_history', 1, Len(chat_history)) = chat_history
                /\ chat_history'[Len(chat_history')].user = chat_prompt.question]_vars

\* a second question is being answered over a knowledge base and a list of
\* records both longer than three, with the first answer in the history
C11_Witness ==
  /\ pc = "chat"
  /\ Len(chat_history) >= 1
  /\ Len(ss.kb_vectorstore.texts) > 3
  /\ Len(ss.assessment.items) > 3
  /\ chat_prompt.question = chat_history[1].user

(* ---------------- C13 ---------------- *)
\* C13: whenever kb_ready is set the session holds a knowledge base, and an
\* assessment under way was handed one.
C13_ReadyHasStore ==
  /\ ss.kb_ready => ss.kb_vectorstore.kind = "FAISS"
  /\ (pc = "called" \/ pc = "pool") => kb_arg.kind = "FAISS"

\* the knowledge base was deleted and the next Train failed to build one
C13_Witness ==
  /\ ss.kb_vectorstore = NoneKB
  /\ ~ss.kb_ready
  /\ handler_exc = "ValueError"

(* ---------------- C14 ---------------- *)
\* C14: whenever Step 3 is shown, the knowledge base handed to chat_with_bot
\* is a store.
C14_ChatHasStore ==
  (ss.assessment_done /\ RenderExc(ss) = "None") =>
     ss.kb_vectorstore.kind = "FAISS"

(* ---------------- C12 ---------------- *)
CompliantWords == {"Compliant", "compliant"}
PartialWords == {"Partial"}
SaysNonCompliant(v) ==
  \E i \in 1..(Len(v) - 1) : v[i] = "Non-" /\ v[i + 1] \in CompliantWords

====
